---- MODULE Spec2Model ----
(***************************************************************************)
(* Model of neurons/miner.py (tensorage storage miner): the allocation     *)
(* directory `allocations`, the thread-local sqlite connection cache, the  *)
(* Store / Retrieve request handlers and the main loop of main().          *)
(***************************************************************************)
EXTENDS Integers, Sequences, FiniteSets, TLC

\* ---------------------------------------------------------------- bounds
MaxStep == 2          \* the step counter is explored up to this value
NumPaths == 2         \* storage paths allocate can hand out to one peer
MaxRequests == 2      \* requests the axon serves in one run

\* ------------------------------------------------------ program constants
TelemetryPeriod == 5        \* miner.py:257  step % 5
steps_per_reallocate == 2   \* miner.py:57   --steps_per_reallocate (small here)

\* ------------------------------------------------------------- universes
Peers == {"A", "B"}                 \* validator hotkeys (synapse.dendrite.hotkey)
Workers == {"w1", "w2"}             \* request-serving threads
Main == "main"                      \* the thread running main()
Threads == Workers \cup {Main}
Keys == {"k1", "k2"}                \* synapse.key
ProvisionedKeys == {"k1"}           \* ids of the placeholder rows generate creates
Null == "None"                      \* Python None / SQL NULL
Data == {Null, "v1"}                \* synapse.data
Movers == {"A"}                     \* peers whose standing on the chain changes
Paths == (Movers \X (1..NumPaths)) \cup ((Peers \ Movers) \X {1})  \* alloc["path"]
TryPcs == {"tick", "generate"}      \* main() in the try block: line 257, line 287
ExceptPcs == {"except_telemetry", "except"}   \* main() at line 307, by what raised
LoopPcs == TryPcs \cup ExceptPcs    \* main() in the loop of lines 254-308

VARIABLES
    pc,             \* position of the main thread in main()
    step,           \* miner.py:253
    sigint,         \* a SIGINT is pending for the main thread
    restart,        \* config.restart
    chain,          \* what subtensor.metagraph() would return now
    allocations,    \* miner.py:140 / 273, the directory the handlers close over
    db,             \* the sqlite files: db[path][table][id] = data
    connections,    \* every sqlite3.Connection object ever created
    local_storage,  \* miner.py:162, per thread: validator -> connection (0 = no attribute)
    synapse,        \* the last request served and what its handler did
    lastStore,      \* history: the last Store request per (hotkey, key)
    allocInput      \* history: the metagraph the last allocate call was given

vars == <<pc, step, sigint, restart, chain, allocations, db, connections,
          local_storage, synapse, lastStore, allocInput>>

\* --------------------------------------------------------------- helpers
NoTables == [t \in {} |-> 0]
NoWrites == [k \in {} |-> 0]
NoStore == [outcome |-> "none", data |-> Null, committed |-> FALSE, path |-> <<"A", 1>>]
NoRequest == [op |-> "none", thread |-> "w1", hotkey |-> "A", key |-> "k1",
              data |-> Null, outcome |-> "none", allocated |-> FALSE,
              conn |-> 0, reused |-> FALSE, write |-> "none", row |-> << >>, seq |-> 0]

Stored(outcome, data, committed, path) ==
    [outcome |-> outcome, data |-> data, committed |-> committed, path |-> path]

\* f with x mapped to v (x is added to the domain when it is not there)
Put(f, x, v) == [y \in DOMAIN f \cup {x} |-> IF y = x THEN v ELSE f[y]]

\* the table generate creates: one placeholder row per provisioned id
PlaceholderTable == [k \in ProvisionedKeys |-> Null]

\* allocate.allocate(db_root_path, wallet, metagraph, threshold, hash=False):
\* one descriptor per registered peer, its path a function of the metagraph
allocate(metagraph) ==
    { [validator |-> p, path |-> <<p, metagraph[p]>>] :
        p \in {q \in Peers : metagraph[q] # 0} }

\* {a["validator"]: a for a in allocate.allocate(...)}
AllocationsOf(descriptors) ==
    [p \in {a.validator : a \in descriptors} |->
        CHOOSE a \in descriptors : a.validator = p]

\* allocate.generate for one descriptor: (re)creates the table DB<own><validator>
\* in the file at the descriptor's path
generate_one(file, validator, rst) ==
    IF rst \/ validator \notin DOMAIN file
    THEN Put(file, validator, PlaceholderTable)
    ELSE file

\* allocate.generate(allocations=..., restart=rst) over the descriptors in todo
generate(files, allocs, todo, rst) ==
    [path \in Paths |->
        IF \E p \in todo : allocs[p].path = path
        THEN generate_one(files[path],
                          (CHOOSE p \in todo : allocs[p].path = path), rst)
        ELSE files[path]]

\* ------------------------------------------------------------------ Init
Init ==
    /\ pc = "start"
    /\ step = 0
    /\ sigint = FALSE
    /\ restart \in BOOLEAN
    /\ chain = [p \in Peers |-> 1]
    /\ allocations = AllocationsOf({})
    \* a previous run left its tables, with "v1" stored under every provisioned id
    /\ db = [path \in Paths |->
               IF path[2] = 1
               THEN Put(NoTables, path[1], [k \in ProvisionedKeys |-> "v1"])
               ELSE NoTables]
    /\ lastStore = [pk \in Peers \X ProvisionedKeys |->
                      Stored("prior", "v1", TRUE, <<pk[1], 1>>)]
    /\ connections = << >>
    /\ local_storage = [t \in Threads |-> [p \in Peers |-> 0]]
    /\ synapse = NoRequest
    /\ allocInput = chain


\* ------------------------------------------------- thread-local connections
\* a plain object in place of threading.local(): one dictionary for all threads
local_dict_shared(t) == "w1"

\* threading.local(): the attribute dictionary thread t sees is its own
local_dict(t) == t

\* the attribute test never finds the attribute (a misspelt attribute name)
hasattr_never(ls, t, validator) == FALSE

\* hasattr(local_storage, f"connection_{validator}") in thread t
hasattr(ls, t, validator) == ls[local_dict(t)][validator] # 0

\* getattr(local_storage, f"connection_{validator}") in thread t
getattr(ls, t, validator) == ls[local_dict(t)][validator]

\* sqlite3.connect(path) called by thread t for the descriptor of `validator`:
\* a new connection object with no open transaction. (It creates the file when
\* there is none: a file without tables, which db represents like a missing file.)
sqlite3_connect(path, t, validator) ==
    [path |-> path, owner |-> t, peer |-> validator, isopen |-> TRUE,
     tx |-> FALSE, writes |-> NoWrites]

\* a cache that follows the directory: a cached connection on another path than
\* the descriptor's is replaced by a connection to the descriptor's path
get_db_connection_fresh(conns, ls, t, alloc) ==
    LET miss == \/ ~hasattr(ls, t, alloc.validator)
                \/ conns[getattr(ls, t, alloc.validator)].path # alloc.path
        conns2 == IF miss
                  THEN Append(conns, sqlite3_connect(alloc.path, t, alloc.validator))
                  ELSE conns
        ls2 == IF miss
               THEN [ls EXCEPT ![local_dict(t)][alloc.validator] = Len(conns) + 1]
               ELSE ls
    IN  [connections |-> conns2, local_storage |-> ls2,
         conn |-> getattr(ls2, t, alloc.validator), reused |-> ~miss]

\* get_db_connection(alloc) in thread t: the connection objects and the cache
\* after the call, and the connection returned
get_db_connection(conns, ls, t, alloc) ==
    LET miss == ~hasattr(ls, t, alloc.validator)
        conns2 == IF miss
                  THEN Append(conns, sqlite3_connect(alloc.path, t, alloc.validator))
                  ELSE conns
        ls2 == IF miss
               THEN [ls EXCEPT ![local_dict(t)][alloc.validator] = Len(conns) + 1]
               ELSE ls
    IN  [connections |-> conns2, local_storage |-> ls2,
         conn |-> getattr(ls2, t, alloc.validator), reused |-> ~miss]

\* close_db_connections() in thread t: closes the connections of t's attributes
close_db_connections(conns, ls, t) ==
    [i \in DOMAIN conns |->
        IF \E v \in Peers : getattr(ls, t, v) = i
        THEN [conns[i] EXCEPT !.isopen = FALSE]
        ELSE conns[i]]

\* ------------------------------------------------------------------ sqlite
\* rows of a table with the uncommitted writes w of a transaction applied
Overlay(rows, w) == [k \in DOMAIN rows |-> IF k \in DOMAIN w THEN w[k] ELSE rows[k]]

\* another connection holds a write transaction on the same file
Locked(conns, id) ==
    \E j \in DOMAIN conns : j # id /\ conns[j].path = conns[id].path /\ conns[j].tx

\* cursor.execute("UPDATE <table> SET data = ? WHERE id = ?", (data, key)), line
\* 221, when it does not raise: the statement opens the connection's transaction
\* and rewrites the row with that id, if there is one
cursor_execute_update(conns, files, id, table, key, data) ==
    LET c == conns[id]
        hit == key \in DOMAIN files[c.path][table]
    IN  [connections |-> [conns EXCEPT ![id].tx = TRUE,
                                       ![id].writes = IF hit THEN Put(@, key, data) ELSE @],
         rowcount |-> IF hit THEN 1 ELSE 0]

\* store without line 222: the transaction is left open
db_commit_missing(conns, files, id, table) ==
    [connections |-> conns, db |-> files]

\* db.commit(), line 222, when it does not raise: the transaction's writes reach
\* the file and the transaction ends
db_commit(conns, files, id, table) ==
    [connections |-> [conns EXCEPT ![id].tx = FALSE, ![id].writes = NoWrites],
     db |-> [files EXCEPT ![conns[id].path][table] = Overlay(@, conns[id].writes)]]

\* an except clause that names one error class only
store_except_narrow(e) == e = "ProgrammingError"

\* `except Exception as e`, line 223: every error of the sqlite3 module is caught
store_except(e) == e \in {"OperationalError", "DatabaseError", "ProgrammingError"}

\* lines 219-224, the try block of store; fault is what goes wrong in the engine.
\* write: "updated", "zero" (no row has that id) or "failed" (the error logged at
\* line 224); escaped: an exception the except clause does not catch
sql_update(conns, files, id, table, key, data, fault) ==
    LET c == conns[id] IN
    IF table \notin DOMAIN files[c.path] \/ Locked(conns, id) \/ fault = "execute"
    THEN \* execute raises (no such table, database is locked, I/O error): the
         \* commit is skipped
         [connections |-> conns, db |-> files, write |-> "failed",
          escaped |-> ~store_except("OperationalError")]
    ELSE LET x == cursor_execute_update(conns, files, id, table, key, data) IN
         IF fault = "commit"
         THEN \* commit raises SQLITE_BUSY: the transaction stays open
              [connections |-> x.connections, db |-> files, write |-> "failed",
               escaped |-> ~store_except("OperationalError")]
         ELSE IF fault = "rollback"
         THEN \* commit raises and the engine rolls the transaction back
              [connections |-> [conns EXCEPT ![id].tx = FALSE, ![id].writes = NoWrites],
               db |-> files, write |-> "failed",
               escaped |-> ~store_except("OperationalError")]
         ELSE LET y == db_commit(x.connections, files, id, table) IN
              [connections |-> y.connections, db |-> y.db,
               write |-> IF x.rowcount = 1 THEN "updated" ELSE "zero",
               escaped |-> FALSE]

\* cursor.execute("SELECT data FROM <table> WHERE id=?"); cursor.fetchone():
\* << >> is Python's None (no row), <<d>> the row tuple
fetchone(conns, files, id, table, key) ==
    LET c == conns[id]
        rows == Overlay(files[c.path][table], c.writes)
    IN  IF key \in DOMAIN rows THEN <<rows[key]>> ELSE << >>

\* a missing row answered with an empty string instead of None
retrieve_data_empty(data_value) ==
    IF Len(data_value) > 0 THEN data_value[1] ELSE ""

\* lines 198-202: `if data_value:` tests the tuple, not the value in it
retrieve_data(data_value) ==
    IF Len(data_value) > 0 THEN data_value[1] ELSE Null

\* the handlers address one fixed identity instead of the sender's
dendrite_hotkey_fixed(sender) == "A"

\* synapse.dendrite.hotkey, lines 189, 193, 212 and 220: the identity of the
\* sender, which selects both the descriptor and the table
dendrite_hotkey(sender) == sender

\* the name of the table a request addresses: DB<own hotkey><hotkey>
table_name(hotkey) == hotkey

\* ---------------------------------------------------------------- requests
Faults == {"none", "connect", "execute", "commit", "rollback"}

Request(op, t, hotkey, key, data, outcome, was_allocated, conn, reused, write, row) ==
    [op |-> op, thread |-> t, hotkey |-> hotkey, key |-> key, data |-> data,
     outcome |-> outcome, allocated |-> was_allocated, conn |-> conn,
     reused |-> reused, write |-> write, row |-> row, seq |-> synapse.seq + 1]

\* the history of Store requests, kept for the provisioned ids
Remember(hotkey, key, outcome, data, committed, path) ==
    IF key \in ProvisionedKeys
    THEN [lastStore EXCEPT ![<<hotkey, key>>] = Stored(outcome, data, committed, path)]
    ELSE lastStore

\* allocations[synapse.dendrite.hotkey] does not raise KeyError
allocated(hotkey) == hotkey \in DOMAIN allocations

\* store from line 213 on, with the connection get_db_connection returned in g
StoreServed(t, sender, key, data, fault, g) ==
    LET u == sql_update(g.connections, db, g.conn, table_name(dendrite_hotkey(sender)),
                        key, data, fault)
    IN  /\ connections' = u.connections
        /\ local_storage' = g.local_storage
        /\ db' = u.db
        /\ synapse' = Request("Store", t, sender, key, data,
                              IF u.escaped THEN "OperationalError" ELSE "returned",
                              allocated(sender), g.conn, g.reused, u.write, << >>)
        /\ lastStore' = Remember(sender, key,
                                 IF u.escaped THEN "OperationalError" ELSE "returned",
                                 data, u.write = "updated", g.connections[g.conn].path)

\* a request ends in an exception before it has a connection
Refused(op, t, sender, key, data, exc) ==
    /\ synapse' = Request(op, t, sender, key, data, exc, allocated(sender), 0, FALSE,
                          "none", << >>)
    /\ UNCHANGED <<db, connections, local_storage>>

\* store that looks into the thread's cache before it looks into the directory
Store_cache_first(t, sender, key, data, fault) ==
    /\ pc \in LoopPcs
    /\ synapse.seq < MaxRequests
    /\ IF hasattr(local_storage, t, dendrite_hotkey(sender))
       THEN StoreServed(t, sender, key, data, fault,
                        [connections |-> connections, local_storage |-> local_storage,
                         conn |-> getattr(local_storage, t, dendrite_hotkey(sender)),
                         reused |-> TRUE])
       ELSE IF ~allocated(dendrite_hotkey(sender))
       THEN /\ Refused("Store", t, sender, key, data, "KeyError")
            /\ lastStore' = Remember(sender, key, "KeyError", data, FALSE, <<sender, 1>>)
       ELSE IF fault = "connect"
       THEN /\ Refused("Store", t, sender, key, data, "OperationalError")
            /\ lastStore' = Remember(sender, key, "OperationalError", data, FALSE,
                                     <<sender, 1>>)
       ELSE StoreServed(t, sender, key, data, fault,
                        get_db_connection(connections, local_storage, t,
                                          allocations[dendrite_hotkey(sender)]))
    /\ UNCHANGED <<pc, step, sigint, restart, chain, allocations, allocInput>>

\* store(synapse), miner.py:206-228, served by thread t
Store(t, sender, key, data, fault) ==
    /\ pc \in LoopPcs
    /\ synapse.seq < MaxRequests
    /\ IF ~allocated(dendrite_hotkey(sender))
       THEN \* line 212: KeyError leaves the handler
            /\ Refused("Store", t, sender, key, data, "KeyError")
            /\ lastStore' = Remember(sender, key, "KeyError", data, FALSE, <<sender, 1>>)
       ELSE IF fault = "connect" /\ ~hasattr(local_storage, t, dendrite_hotkey(sender))
       THEN \* line 179: sqlite3.connect raises, nothing is cached
            /\ Refused("Store", t, sender, key, data, "OperationalError")
            /\ lastStore' = Remember(sender, key, "OperationalError", data, FALSE,
                                     <<sender, 1>>)
       ELSE StoreServed(t, sender, key, data, fault,
                        get_db_connection(connections, local_storage, t,
                                          allocations[dendrite_hotkey(sender)]))
    /\ UNCHANGED <<pc, step, sigint, restart, chain, allocations, allocInput>>

\* retrieve from line 190 on, with the connection get_db_connection returned in g
RetrieveServed(t, sender, key, g) ==
    LET c == g.connections[g.conn]
        table == table_name(dendrite_hotkey(sender))
    IN  /\ connections' = g.connections
        /\ local_storage' = g.local_storage
        /\ IF table \notin DOMAIN db[c.path]
           THEN \* line 194: no such table; the connection stays cached
                synapse' = Request("Retrieve", t, sender, key, Null, "OperationalError",
                                   allocated(sender), g.conn, g.reused, "none", << >>)
           ELSE LET data_value == fetchone(g.connections, db, g.conn, table, key)
                IN  synapse' = Request("Retrieve", t, sender, key,
                                       retrieve_data(data_value), "returned",
                                       allocated(sender), g.conn, g.reused, "none",
                                       data_value)

\* retrieve that looks into the thread's cache before it looks into the directory
Retrieve_cache_first(t, sender, key, fault) ==
    /\ pc \in LoopPcs
    /\ synapse.seq < MaxRequests
    /\ IF hasattr(local_storage, t, dendrite_hotkey(sender))
       THEN /\ RetrieveServed(t, sender, key,
                              [connections |-> connections, local_storage |-> local_storage,
                               conn |-> getattr(local_storage, t, dendrite_hotkey(sender)),
                               reused |-> TRUE])
            /\ UNCHANGED db
       ELSE IF ~allocated(dendrite_hotkey(sender))
       THEN Refused("Retrieve", t, sender, key, Null, "KeyError")
       ELSE IF fault = "connect"
       THEN Refused("Retrieve", t, sender, key, Null, "OperationalError")
       ELSE /\ RetrieveServed(t, sender, key,
                              get_db_connection(connections, local_storage, t,
                                                allocations[dendrite_hotkey(sender)]))
            /\ UNCHANGED db
    /\ UNCHANGED <<pc, step, sigint, restart, chain, allocations, lastStore,
                   allocInput>>

\* retrieve(synapse), miner.py:183-204, served by thread t
Retrieve(t, sender, key, fault) ==
    /\ pc \in LoopPcs
    /\ synapse.seq < MaxRequests
    /\ IF ~allocated(dendrite_hotkey(sender))
       THEN \* line 189: KeyError leaves the handler
            Refused("Retrieve", t, sender, key, Null, "KeyError")
       ELSE IF fault = "connect" /\ ~hasattr(local_storage, t, dendrite_hotkey(sender))
       THEN \* line 179: sqlite3.connect raises, nothing is cached
            Refused("Retrieve", t, sender, key, Null, "OperationalError")
       ELSE /\ RetrieveServed(t, sender, key,
                              get_db_connection(connections, local_storage, t,
                                                allocations[dendrite_hotkey(sender)]))
            /\ UNCHANGED db
    /\ UNCHANGED <<pc, step, sigint, restart, chain, allocations, lastStore,
                   allocInput>>

StoreRequest ==
    \E t \in Workers, sender \in Peers, key \in Keys, data \in Data, fault \in Faults :
        Store(t, sender, key, data, fault)

RetrieveRequest ==
    \E t \in Workers, sender \in Peers, key \in Keys, fault \in {"none", "connect"} :
        Retrieve(t, sender, key, fault)

\* ---------------------------------------------------------------- the chain
\* the network changes: a peer's standing changes (allocate then hands out its
\* next path), and in the end it deregisters. The program sees the network only
\* through the metagraph it fetches at lines 126 and 272, so a change counts
\* where a later fetch can still see it: ahead of a fetch, the loop running on.
ChainUpdate ==
    /\ pc \in {"start", "tick"} /\ ~sigint
    /\ step < MaxStep
    /\ \E p \in Movers :
          /\ chain[p] # 0
          /\ chain' = [chain EXCEPT ![p] = (@ + 1) % (NumPaths + 1)]
    /\ UNCHANGED <<pc, step, sigint, restart, allocations, db, connections,
                   local_storage, synapse, lastStore, allocInput>>

\* SIGINT is delivered to the process
Signal ==
    /\ pc \notin {"done", "aborted"}
    /\ ~sigint
    /\ sigint' = TRUE
    /\ UNCHANGED <<pc, step, restart, chain, allocations, db, connections,
                   local_storage, synapse, lastStore, allocInput>>

\* ------------------------------------------------------------------ startup
\* a directory that is updated in place: the entries of peers that are no
\* longer registered stay in it
InstallDirectory_update(old, new) ==
    [p \in DOMAIN old \cup DOMAIN new |-> IF p \in DOMAIN new THEN new[p] ELSE old[p]]

\* lines 140 and 273, `allocations = {...}`: the name is rebound to the new
\* dictionary once that dictionary is complete
InstallDirectory(old, new) == new

\* lines 140-149: the first directory
StartAllocate ==
    /\ pc = "start" /\ ~sigint
    /\ allocInput' = chain
    /\ allocations' = InstallDirectory(allocations, AllocationsOf(allocate(chain)))
    /\ pc' = "start_generate"
    /\ UNCHANGED <<step, sigint, restart, chain, db, connections, local_storage,
                   synapse, lastStore>>

\* the stored values a destructive generate wipes are no longer stored
Forget(ls, allocs, rst) ==
    [pk \in DOMAIN ls |->
        IF rst /\ pk[1] \in DOMAIN allocs /\ ls[pk].path = allocs[pk[1]].path
        THEN NoStore ELSE ls[pk]]

\* a startup that always provisions destructively
StartRestart_always == TRUE

\* line 158, `restart=config.restart`
StartRestart == restart

\* a loop that hands the operator's flag to generate as the startup does
ReallocateRestart_config == restart

\* line 293, `restart=False`
ReallocateRestart == FALSE

\* lines 154-159 and 232-248: generate with the operator's restart flag, then the
\* axon is attached, served and started
StartGenerate ==
    /\ pc = "start_generate" /\ ~sigint
    /\ db' = generate(db, allocations, DOMAIN allocations, StartRestart)
    /\ lastStore' = Forget(lastStore, allocations, StartRestart)
    /\ pc' = "tick"
    /\ UNCHANGED <<step, sigint, restart, chain, allocations, connections,
                   local_storage, synapse, allocInput>>

\* an exception or a SIGINT before the main loop is caught by nothing
StartAbort ==
    /\ pc \in {"start", "start_generate"}
    /\ pc' = "aborted"
    /\ sigint' = FALSE
    /\ UNCHANGED <<step, restart, chain, allocations, db, connections,
                   local_storage, synapse, lastStore, allocInput>>

\* ---------------------------------------------------------------- main loop
\* line 257 and line 271: which parts of the tick are due at this step
TelemetryDue(n) == n % TelemetryPeriod = 0
ReallocateDue(n) == n % steps_per_reallocate = 0

\* lines 258-269 raise: control is in the `except Exception` clause
TelemetryRaises ==
    /\ pc = "tick" /\ ~sigint
    /\ TelemetryDue(step)
    /\ step < MaxStep
    /\ pc' = "except_telemetry"
    /\ UNCHANGED <<step, sigint, restart, chain, allocations, db, connections,
                   local_storage, synapse, lastStore, allocInput>>

\* a tick without reallocation: lines 257-271 and 296-297
Tick ==
    /\ pc = "tick" /\ ~sigint
    /\ ~ReallocateDue(step)
    /\ step < MaxStep
    /\ step' = step + 1
    /\ UNCHANGED <<pc, sigint, restart, chain, allocations, db, connections,
                   local_storage, synapse, lastStore, allocInput>>

\* lines 257-285: the tick reaches line 271, the metagraph is fetched and
\* `allocations` is rebound to the new directory
Reallocate ==
    /\ pc = "tick" /\ ~sigint
    /\ ReallocateDue(step)
    /\ step < MaxStep
    /\ allocInput' = chain
    /\ allocations' = InstallDirectory(allocations, AllocationsOf(allocate(chain)))
    /\ pc' = "generate"
    /\ UNCHANGED <<step, sigint, restart, chain, db, connections, local_storage,
                   synapse, lastStore>>

\* line 272 or allocate raises: `allocations` keeps its value
ReallocateRaises ==
    /\ pc = "tick" /\ ~sigint
    /\ ReallocateDue(step)
    /\ step < MaxStep
    /\ pc' = "except"
    /\ UNCHANGED <<step, sigint, restart, chain, allocations, db, connections,
                   local_storage, synapse, lastStore, allocInput>>

\* lines 287-297: generate(restart=False) for the directory just installed,
\* then the step counter moves on
Generate ==
    /\ pc = "generate" /\ ~sigint
    /\ step < MaxStep
    /\ db' = generate(db, allocations, DOMAIN allocations, ReallocateRestart)
    /\ lastStore' = Forget(lastStore, allocations, ReallocateRestart)
    /\ step' = step + 1
    /\ pc' = "tick"
    /\ UNCHANGED <<sigint, restart, chain, allocations, connections,
                   local_storage, synapse, allocInput>>

\* generate raises after it provisioned some of the descriptors
GenerateRaises ==
    /\ pc = "generate" /\ ~sigint
    /\ \E done \in SUBSET (DOMAIN allocations) :
          /\ db' = generate(db, allocations, done, ReallocateRestart)
          /\ lastStore' = Forget(lastStore, [p \in done |-> allocations[p]],
                                 ReallocateRestart)
    /\ pc' = "except"
    /\ UNCHANGED <<step, sigint, restart, chain, allocations, connections,
                   local_storage, synapse, allocInput>>

\* a loop without the `except Exception` clause: the exception ends main()
ExceptAbort == "aborted"

\* lines 306-308, `except Exception`: the error is logged and `continue` takes
\* the loop back to line 255
ExceptContinue == "tick"

\* an exception path that counts the tick (`finally: step += 1`)
ExceptStep_counted(n) == n + 1

\* line 308, `continue`: lines 296-297 are skipped, the step counter is as it was
ExceptStep(n) == n

\* lines 306-308: the traceback is logged and the loop goes on
Continue ==
    /\ pc \in ExceptPcs /\ ~sigint
    /\ pc' = ExceptContinue
    /\ step' = ExceptStep(step)
    /\ UNCHANGED <<sigint, restart, chain, allocations, db, connections,
                   local_storage, synapse, lastStore, allocInput>>

\* lines 300-304: KeyboardInterrupt in the main thread, anywhere in the try block
KeyboardInterrupt ==
    /\ pc \in TryPcs /\ sigint
    /\ connections' = close_db_connections(connections, local_storage, Main)
    /\ pc' = "done"
    /\ sigint' = FALSE
    /\ UNCHANGED <<step, restart, chain, allocations, db, local_storage, synapse,
                   lastStore, allocInput>>

\* lines 306-308: KeyboardInterrupt while the `except Exception` clause runs; no
\* try statement encloses that clause, so the exception ends main()
UncaughtInterrupt ==
    /\ pc \in ExceptPcs /\ sigint
    /\ pc' = "aborted"
    /\ sigint' = FALSE
    /\ UNCHANGED <<step, restart, chain, allocations, db, connections,
                   local_storage, synapse, lastStore, allocInput>>

Next ==
    \/ ChainUpdate
    \/ Signal
    \/ StartAllocate
    \/ StartGenerate
    \/ StartAbort
    \/ TelemetryRaises
    \/ Tick
    \/ Reallocate
    \/ ReallocateRaises
    \/ Generate
    \/ GenerateRaises
    \/ Continue
    \/ KeyboardInterrupt
    \/ UncaughtInterrupt
    \/ StoreRequest
    \/ RetrieveRequest

Spec == Init /\ [][Next]_vars

\* the runs of an operator who did not ask for a restart: the flag is read at
\* line 158 only and has no part in how the loop runs or ends
FairInit == Init /\ ~restart

\* the main thread keeps running, and a pending SIGINT is raised in it
FairSpec ==
    FairInit /\ [][Next]_vars /\ WF_vars(KeyboardInterrupt) /\ WF_vars(UncaughtInterrupt)


\* ------------------------------------------------------------------ claims
\* the step taken serves a request
Served == synapse'.seq # synapse.seq

\* the last Store request of the sender of the last request, for its key
LastStored == lastStore[<<synapse.hotkey, synapse.key>>]

\* C1 as stated: round trip. A Retrieve(p, k) of an allocated peer p for a
\* provisioned key k that is answered, when the last Store(p, k, v) returned an
\* ack, returns v.
C1_RoundTrip ==
    (/\ synapse.op = "Retrieve"
     /\ synapse.allocated
     /\ synapse.key \in ProvisionedKeys
     /\ synapse.outcome = "returned"
     /\ LastStored.outcome = "returned")
    => synapse.data = LastStored.data

\* C1 amended: round trip of a committed write on one storage file. When the
\* last Store(p, k, v) updated the row and committed, a Retrieve(p, k) that is
\* answered through a connection to the same storage file returns exactly v.
C1_RoundTripCommitted ==
    (/\ synapse.op = "Retrieve"
     /\ synapse.key \in ProvisionedKeys
     /\ synapse.outcome = "returned"
     /\ LastStored.outcome = "returned"
     /\ LastStored.committed
     /\ connections[synapse.conn].path = LastStored.path)
    => synapse.data = LastStored.data

C1_Witness ==
    /\ synapse.op = "Retrieve"
    /\ synapse.key \in ProvisionedKeys
    /\ synapse.outcome = "returned"
    /\ LastStored.outcome = "returned"
    /\ LastStored.committed
    /\ connections[synapse.conn].path = LastStored.path
    /\ synapse.data = "v1"
    /\ \E id \in DOMAIN connections : id # synapse.conn

\* C2: isolation. A Retrieve(B, k) that is answered returns NotFound (no data)
\* when B never stored k, whatever other peers stored under k; and a Store by a
\* peer changes no row of any table that is not the sender's table in the
\* sender's storage file.
C2_Isolation ==
    /\ []((/\ synapse.op = "Retrieve"
           /\ synapse.outcome = "returned"
           /\ synapse.key \in ProvisionedKeys
           /\ LastStored.outcome = "none")
          => synapse.data = Null)
    /\ [][(Served /\ synapse'.op = "Store")
          => \A path \in Paths : \A tbl \in DOMAIN db[path] :
                (path[1] # synapse'.hotkey \/ tbl # synapse'.hotkey)
                => (tbl \in DOMAIN db'[path] /\ db'[path][tbl] = db[path][tbl])]_vars

C2_Witness ==
    /\ synapse.op = "Retrieve"
    /\ synapse.hotkey = "B"
    /\ synapse.key = "k1"
    /\ synapse.outcome = "returned"
    /\ synapse.data = Null
    /\ lastStore[<<"B", "k1">>].outcome = "none"
    /\ lastStore[<<"A", "k1">>] = Stored("returned", "v1", TRUE, <<"A", 1>>)
    /\ db[<<"A", 1>>]["A"]["k1"] = "v1"

\* C3 as stated: a Retrieve from a peer that is not in the directory answers
\* NotFound (data = None), like a Retrieve of an unknown key.
C3_RetrieveUnallocatedNotFound ==
    (synapse.op = "Retrieve" /\ ~synapse.allocated)
    => (synapse.outcome = "returned" /\ synapse.data = Null)

\* C4: a Store from a peer that is not in the directory returns no ack, opens no
\* connection and changes no table and no thread's connection cache, also when
\* the serving thread caches a connection for that peer.
C4_StoreUnallocatedRejected ==
    [][(Served /\ synapse'.op = "Store" /\ synapse'.hotkey \notin DOMAIN allocations)
       => (/\ synapse'.outcome # "returned"
           /\ UNCHANGED <<db, connections, local_storage>>)]_vars

C4_Witness ==
    /\ synapse.op = "Store"
    /\ synapse.hotkey \notin DOMAIN allocations
    /\ synapse.outcome = "KeyError"
    /\ local_storage[synapse.thread][synapse.hotkey] # 0

\* C5: a Store of an allocated peer that has its connection returns the ack,
\* whether the update changed a row, matched no row, or failed; after a failed
\* write the tables are as they were.
C5_StoreAlwaysAcks ==
    [][(/\ Served
        /\ synapse'.op = "Store"
        /\ synapse'.hotkey \in DOMAIN allocations
        /\ local_storage'[synapse'.thread][synapse'.hotkey] # 0)
       => (/\ synapse'.outcome = "returned"
           /\ synapse'.write \in {"updated", "zero", "failed"}
           /\ synapse'.write = "failed" => db' = db)]_vars

C5_Witness ==
    /\ synapse.op = "Store"
    /\ synapse.outcome = "returned"
    /\ synapse.write = "failed"
    /\ synapse.key \in ProvisionedKeys
    /\ synapse.data = "v1"
    /\ db[connections[synapse.conn].path][synapse.hotkey][synapse.key] = Null

\* C6: an answered Retrieve gives the same NotFound response (data = None) when
\* no row has the key and when the row's data is null, and gives the row's data
\* when that is not null.
C6_NullOrMissing ==
    (synapse.op = "Retrieve" /\ synapse.outcome = "returned")
    => IF synapse.row = << >> \/ synapse.row = <<Null>>
       THEN synapse.data = Null
       ELSE synapse.row = <<synapse.data>>

C6_Witness ==
    /\ synapse.op = "Retrieve"
    /\ synapse.outcome = "returned"
    /\ synapse.row = << >>
    /\ synapse.data = Null

\* C7 as stated: once the main loop has ended on the signal, no worker's cache
\* holds an open connection.
C7_ShutdownClosesAll ==
    pc = "done"
    => \A t \in Workers, v \in Peers :
          local_storage[t][v] # 0 => ~connections[local_storage[t][v]].isopen

\* C8: every open connection is in the cache of exactly one thread, the thread
\* that opened it, and a request uses a connection its own thread opened.
C8_WorkerExclusive ==
    /\ \A id \in DOMAIN connections :
          connections[id].isopen
          => {tv \in Threads \X Peers : local_storage[tv[1]][tv[2]] = id}
               = {<<connections[id].owner, connections[id].peer>>}
    /\ synapse.conn # 0 => connections[synapse.conn].owner = synapse.thread

C8_Witness ==
    /\ local_storage["w1"]["A"] # 0
    /\ local_storage["w2"]["A"] # 0
    /\ local_storage["w1"]["A"] # local_storage["w2"]["A"]
    /\ synapse.conn = local_storage["w2"]["A"]

\* C9: a thread opens at most one connection per peer, and a request of a
\* thread that holds a connection for the peer gets that connection.
C9_NoDuplicateHandle ==
    /\ [](\A t \in Threads, v \in Peers :
            Cardinality({id \in DOMAIN connections :
                           connections[id].owner = t /\ connections[id].peer = v}) <= 1)
    /\ [][(/\ Served
           /\ synapse'.conn # 0
           /\ local_storage[synapse'.thread][synapse'.hotkey] # 0)
          => (/\ synapse'.conn = local_storage[synapse'.thread][synapse'.hotkey]
              /\ Len(connections') = Len(connections))]_vars

C9_Witness ==
    /\ synapse.seq = 2
    /\ synapse.reused
    /\ synapse.conn # 0
    /\ Len(connections) = 1

\* C10: the main loop is left only by a step that raises the pending signal in
\* the main thread (the step out of an `except Exception` clause goes back into
\* the loop), and a signal that arrives while the loop runs ends the loop.
C10_OnlySignalStops ==
    /\ [][(pc \in LoopPcs /\ pc' \notin LoopPcs) => sigint]_vars
    /\ [][(pc \in TryPcs /\ pc' \notin LoopPcs) => pc' = "done"]_vars
    /\ [][(pc \in ExceptPcs /\ ~sigint) => pc' \in LoopPcs]_vars
    /\ ((sigint /\ pc \in LoopPcs) ~> (pc \in {"done", "aborted"}))

C10_Witness ==
    /\ pc = "done"
    /\ step = 1

\* a table that exists keeps its rows in the step taken
TablesKept ==
    \A path \in Paths : \A tbl \in DOMAIN db[path] :
        tbl \in DOMAIN db'[path] /\ db'[path][tbl] = db[path][tbl]

\* C11: a step that serves no request gives new contents to a table that exists
\* (a destructive generate) only as the generate call of the startup, and only
\* when the operator set the restart flag; the generate call of a reallocation
\* in the main loop never does, whatever the flag is.
C11_RestartOnlyAtStartup ==
    /\ [][(~Served /\ ~TablesKept) => (pc = "start_generate" /\ restart)]_vars
    /\ [][(pc \in LoopPcs) => (pc' # "start_generate")]_vars

C11_Witness ==
    /\ restart
    /\ pc = "tick"
    /\ step = 1
    /\ synapse.seq = 0
    /\ \A p \in Peers : db[<<p, 1>>][p]["k1"] = Null

C13_AtomicDirectory ==
    /\ [](pc \in LoopPcs => allocations = AllocationsOf(allocate(allocInput)))
    /\ [][(Served /\ synapse'.conn # 0 /\ ~synapse'.reused)
          => [validator |-> synapse'.hotkey,
              path |-> connections'[synapse'.conn].path] \in allocate(allocInput)]_vars
    /\ [][(pc = "tick" /\ pc' \in ExceptPcs) => allocations' = allocations]_vars
    /\ [][(allocations' # allocations) => (pc \in {"start", "tick"} /\ allocInput' = chain)]_vars

C13_Witness ==
    /\ synapse.hotkey = "A"
    /\ synapse.conn # 0
    /\ ~synapse.reused
    /\ connections[synapse.conn].path = <<"A", 2>>
    /\ "B" \in DOMAIN allocations

\* C14 as stated: a handler that resolves a descriptor from the directory finds
\* that descriptor's table provisioned, and after a generate call that raised
\* every descriptor of the installed directory has its table.
C14_InstallAfterGenerate ==
    /\ [][(Served /\ synapse'.conn # 0 /\ ~synapse'.reused)
          => table_name(synapse'.hotkey) \in DOMAIN db[connections'[synapse'.conn].path]]_vars
    /\ [][(pc = "generate" /\ pc' \in ExceptPcs)
          => \A p \in DOMAIN allocations' :
                table_name(p) \in DOMAIN db'[allocations'[p].path]]_vars

\* the request served by the step taken found a connection for its sender in
\* the cache of the thread that served it
Held == hasattr(local_storage, synapse'.thread, synapse'.hotkey)

\* C15 as stated: a request whose worker holds a connection for the sender is
\* served through that connection and does not end in KeyError.
C15_CacheFirst ==
    [][(Served /\ Held)
       => /\ synapse'.conn = getattr(local_storage, synapse'.thread, synapse'.hotkey)
          /\ synapse'.outcome # "KeyError"]_vars

\* C15, amended: the directory is consulted first, on every request. A sender
\* that is not in it gets KeyError, also when the worker holds a connection for
\* it, and nothing is opened; for a sender that is in it the worker's cached
\* connection is returned when there is one, and only otherwise a connection to
\* the descriptor's path is opened and cached.
C15_DirectoryFirst ==
    [][Served =>
         IF synapse'.hotkey \notin DOMAIN allocations
         THEN /\ synapse'.outcome = "KeyError"
              /\ synapse'.conn = 0
              /\ connections' = connections
              /\ local_storage' = local_storage
         ELSE IF Held
         THEN /\ synapse'.conn = getattr(local_storage, synapse'.thread, synapse'.hotkey)
              /\ synapse'.reused
              /\ synapse'.outcome # "KeyError"
              /\ Len(connections') = Len(connections)
              /\ local_storage' = local_storage
         ELSE \/ /\ synapse'.conn = 0
                 /\ synapse'.outcome = "OperationalError"
                 /\ connections' = connections
                 /\ local_storage' = local_storage
              \/ /\ synapse'.conn = Len(connections) + 1
                 /\ ~synapse'.reused
                 /\ Len(connections') = Len(connections) + 1
                 /\ connections'[synapse'.conn].path = allocations[synapse'.hotkey].path
                 /\ getattr(local_storage', synapse'.thread, synapse'.hotkey) = synapse'.conn]_vars

C15_Witness ==
    /\ synapse.op = "Retrieve"
    /\ synapse.outcome = "KeyError"
    /\ synapse.hotkey \notin DOMAIN allocations
    /\ local_storage[synapse.thread][synapse.hotkey] # 0

\* C16: a connection a worker has cached for a peer stays that worker's
\* connection for the peer, on the path it was opened with, whatever the
\* directory becomes; a request served with a cached connection reads and writes
\* the file at that connection's path only, and a request of a worker that has no
\* connection for the peer opens the path the directory gives now.
C16_CachedHandleKept ==
    /\ [][\A t \in Workers, v \in Peers :
            local_storage[t][v] # 0
            => /\ local_storage'[t][v] = local_storage[t][v]
               /\ connections'[local_storage[t][v]].path
                    = connections[local_storage[t][v]].path]_vars
    /\ [][(Served /\ synapse'.conn # 0)
          => /\ synapse'.reused = Held
             /\ IF Held
                THEN synapse'.conn = local_storage[synapse'.thread][synapse'.hotkey]
                ELSE connections'[synapse'.conn].path = allocations[synapse'.hotkey].path
             /\ \A path \in Paths :
                   path # connections'[synapse'.conn].path => db'[path] = db[path]
             /\ synapse'.op = "Retrieve" /\ synapse'.outcome = "returned"
                => synapse'.row =
                     fetchone(connections', db, synapse'.conn,
                              table_name(synapse'.hotkey), synapse'.key)]_vars

C16_Witness ==
    /\ synapse.op = "Store"
    /\ synapse.hotkey = "A"
    /\ synapse.write = "updated"
    /\ synapse.reused
    /\ connections[synapse.conn].path = <<"A", 1>>
    /\ "A" \in DOMAIN allocations
    /\ allocations["A"].path = <<"A", 2>>
    /\ db[<<"A", 1>>]["A"]["k1"] = synapse.data

\* C17 as stated: a tick in which an exception was raised increments the step
\* counter as every other tick does.
C17_EveryTickCounts ==
    [][(pc \in ExceptPcs /\ pc' \in TryPcs) => step' = step + 1]_vars

\* C18 as stated: a tick whose telemetry raised goes on as if it had not: the
\* reallocation due at its step is made in that tick, and the tick ends with the
\* step counter incremented.
C18_TelemetryIgnored ==
    [][(pc = "except_telemetry" /\ pc' # pc /\ pc' \in LoopPcs)
       => (IF ReallocateDue(step) THEN pc' = "generate" ELSE step' = step + 1)]_vars

\* C19 as stated: a Store changes at most the row with its key, in no table is
\* a row inserted or deleted by a request, and a Retrieve changes no table.
C19_SingleRowUpdate ==
    /\ [][(Served /\ synapse'.op = "Store")
          => \A path \in Paths : \A tbl \in DOMAIN db[path] :
                /\ tbl \in DOMAIN db'[path]
                /\ DOMAIN db'[path][tbl] = DOMAIN db[path][tbl]
                /\ \A k \in DOMAIN db[path][tbl] :
                      db'[path][tbl][k] # db[path][tbl][k]
                      => /\ k = synapse'.key
                         /\ tbl = table_name(synapse'.hotkey)
                         /\ path = connections'[synapse'.conn].path]_vars
    /\ [][(Served /\ synapse'.op = "Retrieve") => db' = db]_vars

\* C20: the step counter never decreases; it leaves a step at which a
\* reallocation is due only in the step that ends a generate call without an
\* exception, in the iteration that installed the directory, every descriptor of
\* which then has its table; an iteration that raises leaves the counter as it is.
C20_DueReallocationNotSkipped ==
    /\ [][step' >= step]_vars
    /\ [][(step' # step /\ ReallocateDue(step))
          => /\ pc = "generate" /\ pc' = "tick"
             /\ step' = step + 1
             /\ allocations' = allocations
             /\ \A p \in DOMAIN allocations :
                   table_name(p) \in DOMAIN db'[allocations[p].path]]_vars
    /\ [][(pc \in ExceptPcs \/ pc' \in ExceptPcs) => step' = step]_vars
    /\ [][(pc \in ExceptPcs /\ pc' = "tick") => UNCHANGED <<step, allocations, db>>]_vars

C20_Witness ==
    /\ pc = "tick"
    /\ step = 1
    /\ "A" \in DOMAIN allocations
    /\ allocations["A"].path = <<"A", 2>>
    /\ "A" \in DOMAIN db[<<"A", 2>>]

====
